---- MODULE Spec2Model ----
(***************************************************************************)
(* Model of MVRClient (src/mvr_client.py): the constructor's choice of the *)
(* CAPTCHA solver, the result parser of _do_query and the retry loop of    *)
(* query_documents.                                                        *)
(*                                                                         *)
(* Texts are sequences of words.  The Cyrillic words the code looks for    *)
(* are written in Latin letters:                                           *)
(*   "Greshka"   the error token, capitalised as the code spells it        *)
(*   "Nevalidna" the invalid token                                         *)
(*   "kapcha"    the captcha token, "KAPCHA" the same word in upper case   *)
(*   "SledDate"  the words "Sled DD.MM.YYYY" that open the success phrase  *)
(*   "poluchen." the word that closes the success phrase                   *)
(*   "w"         any other word                                            *)
(* A CAPTCHA guess is a sequence of characters: "a" is an alphanumeric     *)
(* character, "-" one that is not, " " is white space.                     *)
(* The fields egn, last_name and raw_html of a result echo the arguments   *)
(* and the response unchanged; they are left out, and so is the cookie jar *)
(* of the session.                                                         *)
(***************************************************************************)
EXTENDS Integers, Sequences, FiniteSets, TLC

\* ---------------------------------------------------------------- bounds
MaxRetriesBound == 2
MaxTextLen == 2
MaxGuessLen == 1

\* ---------------------------------------------------------------- texts
Words == {"Greshka", "Nevalidna", "kapcha", "KAPCHA", "SledDate", "poluchen.", "w"}

SeqsUpTo(S, n) == UNION {[1..k -> S] : k \in 0..n}

Texts == SeqsUpTo(Words, MaxTextLen)

\* str.lower() on one word
Lower(w) ==
    CASE w = "Greshka" -> "greshka"
      [] w = "Nevalidna" -> "nevalidna"
      [] w = "KAPCHA" -> "kapcha"
      [] w = "SledDate" -> "sleddate"
      [] OTHER -> w

\* `tok in text`, case-sensitive
Contains(text, tok) == \E i \in 1..Len(text) : text[i] = tok

\* `tok in text.lower()`
ContainsLower(text, tok) == \E i \in 1..Len(text) : Lower(text[i]) = tok

\* least element of a non-empty set of integers
Min(S) == CHOOSE x \in S : \A y \in S : x <= y

\* re.search(first .*? last, text, re.DOTALL) for a first word out of firsts
\* and a last word out of lasts: the leftmost start, then the shortest
\* continuation; <<>> when there is no match
LazySearch(text, firsts, lasts) ==
    LET starts == {i \in 1..Len(text) :
                      text[i] \in firsts /\ \E j \in (i+1)..Len(text) : text[j] \in lasts}
    IN  IF starts = {} THEN <<>>
        ELSE LET i == Min(starts)
                 j == Min({k \in (i+1)..Len(text) : text[k] \in lasts})
             IN  SubSeq(text, i, j)

\* the words the error pattern of line 272 accepts under re.I
ErrorWordsI == {w \in Words : Lower(w) \in {"greshka", "nevalidna"}}
CaptchaWordsI == {w \in Words : Lower(w) = "kapcha"}

\* line 268: the success pattern, case-sensitive
SuccessMatch(text) == LazySearch(text, {"SledDate"}, {"poluchen."})

\* line 272: the error pattern, re.I
ErrorMatch(text) == LazySearch(text, ErrorWordsI, CaptchaWordsI)

\* ---------------------------------------------------------------- responses
ContainerKinds == {"alert", "info-bubble", "result"}

\* A response body: the kind of the first container the selectors find
\* ("none" when there is none), the text inside it and the text of the rest
\* of the page.
Bodies ==
    {b \in [container : ContainerKinds \cup {"none"}, ctext : Texts, otext : Texts] :
        /\ Len(b.ctext) + Len(b.otext) <= MaxTextLen
        /\ (b.container = "none" => b.ctext = <<>>)}

\* soup.get_text(): the text of the whole page
PageText(body) == body.otext \o body.ctext

Sentinel == <<"Could not parse result">>

\* lines 245-254: the selectors, tried in order; TRUE when one finds a node
FindResultDiv(body) == body.container \in ContainerKinds

\* ParseResult with the captcha test moved out of the error branch
ParseResult_FlatCaptcha(body) ==
    IF FindResultDiv(body)
    THEN LET result_text == body.ctext
             is_error == Contains(result_text, "Greshka") \/ Contains(result_text, "Nevalidna")
             is_captcha_error == ContainsLower(result_text, "kapcha")
         IN  [success |-> ~is_error, is_captcha_error |-> is_captcha_error,
              result |-> result_text]
    ELSE LET text == PageText(body)
             success_match == SuccessMatch(text)
             error_match == ErrorMatch(text)
         IN  IF success_match # <<>>
             THEN [success |-> TRUE, is_captcha_error |-> FALSE,
                   result |-> success_match]
             ELSE IF error_match # <<>>
             THEN [success |-> FALSE, is_captcha_error |-> TRUE,
                   result |-> error_match]
             ELSE [success |-> TRUE, is_captcha_error |-> FALSE,
                   result |-> Sentinel]

\* ParseResult without the search for the success pattern of lines 268-270
ParseResult_NoSuccessPattern(body) ==
    IF FindResultDiv(body)
    THEN LET result_text == body.ctext
             is_error == Contains(result_text, "Greshka") \/ Contains(result_text, "Nevalidna")
             is_captcha_error == is_error /\ ContainsLower(result_text, "kapcha")
         IN  [success |-> ~is_error, is_captcha_error |-> is_captcha_error,
              result |-> result_text]
    ELSE LET text == PageText(body)
             error_match == ErrorMatch(text)
         IN  IF error_match # <<>>
             THEN [success |-> FALSE, is_captcha_error |-> TRUE,
                   result |-> error_match]
             ELSE [success |-> TRUE, is_captcha_error |-> FALSE,
                   result |-> Sentinel]

\* lines 256-287: the classification of one response
ParseResult(body) ==
    IF FindResultDiv(body)
    THEN LET result_text == body.ctext
             is_error == Contains(result_text, "Greshka") \/ Contains(result_text, "Nevalidna")
             is_captcha_error == is_error /\ ContainsLower(result_text, "kapcha")
         IN  [success |-> ~is_error, is_captcha_error |-> is_captcha_error,
              result |-> result_text]
    ELSE LET text == PageText(body)
             success_match == SuccessMatch(text)
             error_match == ErrorMatch(text)
         IN  IF success_match # <<>>
             THEN [success |-> TRUE, is_captcha_error |-> FALSE,
                   result |-> success_match]
             ELSE IF error_match # <<>>
             THEN [success |-> FALSE, is_captcha_error |-> TRUE,
                   result |-> error_match]
             ELSE [success |-> TRUE, is_captcha_error |-> FALSE,
                   result |-> Sentinel]

\* every result _do_query can produce
ParseResults == {ParseResult(b) : b \in Bodies}

\* ---------------------------------------------------------------- guesses
Chars == {"a", "-", " "}
RawGuesses == SeqsUpTo(Chars, MaxGuessLen)

IsAlnum(c) == c = "a"

\* re.sub(r'[^A-Za-z0-9]', '', s)
RECURSIVE StripNonAlnum(_)
StripNonAlnum(s) ==
    IF s = <<>> THEN <<>>
    ELSE IF IsAlnum(Head(s)) THEN <<Head(s)>> \o StripNonAlnum(Tail(s))
    ELSE StripNonAlnum(Tail(s))

\* str.strip()
RECURSIVE LStrip(_)
LStrip(s) == IF s # <<>> /\ Head(s) = " " THEN LStrip(Tail(s)) ELSE s

RECURSIVE RStrip(_)
RStrip(s) ==
    IF s # <<>> /\ s[Len(s)] = " " THEN RStrip(SubSeq(s, 1, Len(s) - 1)) ELSE s

Strip(s) == RStrip(LStrip(s))

\* ---------------------------------------------------------------- state
VARIABLES
    use_ocr_arg,        \* the use_ocr argument of the constructor
    DDDDOCR_AVAILABLE,  \* the import of ddddocr succeeded
    EASYOCR_AVAILABLE,  \* the import of easyocr succeeded
    use_ocr,            \* self.use_ocr
    ocr,                \* self.ocr is not None
    easyocr_reader,     \* self.easyocr_reader is not None
    max_retries,        \* self.max_retries
    captcha_arg,        \* the captcha argument: <<>> for None, <<s>> for the string s
    pc,                 \* the position inside query_documents
    attempt,            \* the loop variable
    page,               \* the CAPTCHA element of the fetched form page
    captcha,            \* the local captcha: the guess and where it came from
    result,             \* the local result: <<>> while unbound, else <<r>>
    returned,           \* what query_documents returned: <<>> or <<r>>
    raised,             \* the exception that left query_documents, or "none"
    fetches,            \* calls of get_form_page so far
    submits,            \* calls of _do_query so far
    manual_submits,     \* calls of _do_query with a guess typed by the operator
    last_result,        \* what the latest call of _do_query returned: <<>> or <<r>>
    transport_errors,   \* HTTP requests that timed out, failed or had a non-2xx status
    response,           \* the response body of a direct call of _do_query
    parsed              \* what that call returned: <<>> or <<r>>

vars == <<use_ocr_arg, DDDDOCR_AVAILABLE, EASYOCR_AVAILABLE, use_ocr, ocr, easyocr_reader,
          max_retries, captcha_arg, pc, attempt, page, captcha, result, returned, raised,
          fetches, submits, manual_submits, last_result, transport_errors, response,
          parsed>>

config == <<use_ocr_arg, DDDDOCR_AVAILABLE, EASYOCR_AVAILABLE, use_ocr, ocr, easyocr_reader,
            max_retries, captcha_arg>>

NoCaptcha == [text |-> <<>>, origin |-> "unset"]

NoResponse == [container |-> "none", ctext |-> <<>>, otext |-> <<>>]

\* InitClient without the assignment self.use_ocr = False of line 72
InitClient_KeepOcr(arg, dd, easy) ==
    [use_ocr |-> arg,
     ocr |-> arg /\ dd,
     easyocr_reader |-> arg /\ ~dd /\ easy]

\* lines 58-72: the solver the constructor settles on
InitClient(arg, dd, easy) ==
    [use_ocr |-> arg /\ (dd \/ easy),
     ocr |-> arg /\ dd,
     easyocr_reader |-> arg /\ ~dd /\ easy]

\* the client after MVRClient(use_ocr, max_retries)
Client ==
    /\ use_ocr_arg \in BOOLEAN
    /\ DDDDOCR_AVAILABLE \in BOOLEAN
    /\ EASYOCR_AVAILABLE \in BOOLEAN
    /\ use_ocr = InitClient(use_ocr_arg, DDDDOCR_AVAILABLE, EASYOCR_AVAILABLE).use_ocr
    /\ ocr = InitClient(use_ocr_arg, DDDDOCR_AVAILABLE, EASYOCR_AVAILABLE).ocr
    /\ easyocr_reader = InitClient(use_ocr_arg, DDDDOCR_AVAILABLE, EASYOCR_AVAILABLE).easyocr_reader
    /\ max_retries \in -1..MaxRetriesBound

\* the locals of a call of query_documents before its first statement
Locals ==
    /\ attempt = 0
    /\ page = "unset"
    /\ captcha = NoCaptcha
    /\ result = <<>>

\* nothing fetched, submitted, returned or raised yet
Fresh ==
    /\ returned = <<>>
    /\ raised = "none"
    /\ fetches = 0
    /\ submits = 0
    /\ manual_submits = 0
    /\ last_result = <<>>
    /\ transport_errors = 0

\* a constructed client on which query_documents(egn, last_name, captcha) is called
Init ==
    /\ Client
    /\ captcha_arg \in {<<>>} \cup {<<s>> : s \in {<<>>, <<"a">>}}
    /\ pc = "call"
    /\ Locals
    /\ Fresh
    /\ response = NoResponse
    /\ parsed = <<>>

\* Python truthiness of the captcha argument (line 302)
Truthy(arg) == arg # <<>> /\ arg[1] # <<>>

\* the frame of query_documents is discarded when the call ends
FrameGone ==
    /\ attempt' = 0
    /\ page' = "unset"
    /\ captcha' = NoCaptcha
    /\ result' = <<>>

\* return r
Return(r) ==
    /\ returned' = <<r>>
    /\ pc' = "done"
    /\ FrameGone
    /\ UNCHANGED <<raised, transport_errors>>

\* an exception e leaves query_documents: nothing in it catches exceptions
Raise(e) ==
    /\ raised' = e
    /\ transport_errors' = IF e = "transport" THEN transport_errors + 1 ELSE transport_errors
    /\ pc' = "raised"
    /\ FrameGone
    /\ UNCHANGED returned

\* lines 301-304, the test: a pre-solved CAPTCHA goes straight to the submit
Call ==
    /\ pc = "call"
    /\ IF Truthy(captcha_arg)
       THEN /\ pc' = "presolved_submit"
            /\ captcha' = [text |-> captcha_arg[1], origin |-> "presolved"]
       ELSE /\ pc' = "loop"
            /\ UNCHANGED captcha
    /\ UNCHANGED <<config, attempt, page, result, returned, raised, transport_errors, fetches, submits,
                   manual_submits, last_result, response, parsed>>

\* line 304: return self._do_query(egn, last_name, captcha)
PresolvedSubmit ==
    /\ pc = "presolved_submit"
    /\ submits' = submits + 1
    /\ \/ /\ Raise("transport")
          /\ UNCHANGED last_result
       \/ \E r \in ParseResults :
             /\ last_result' = <<r>>
             /\ Return(r)
    /\ UNCHANGED <<config, fetches, manual_submits, response, parsed>>

\* LoopNext over range(1, max_retries + 2)
LoopNext_OffByOne ==
    /\ pc = "loop"
    /\ attempt <= max_retries
    /\ attempt' = attempt + 1
    /\ pc' = "fetch"
    /\ UNCHANGED <<config, page, captcha, result, returned, raised, transport_errors, fetches, submits,
                   manual_submits, last_result, response, parsed>>

\* line 307: the for statement takes the next value of range(1, max_retries + 1)
LoopNext ==
    /\ pc = "loop"
    /\ attempt + 1 <= max_retries
    /\ attempt' = attempt + 1
    /\ pc' = "fetch"
    /\ UNCHANGED <<config, page, captcha, result, returned, raised, transport_errors, fetches, submits,
                   manual_submits, last_result, response, parsed>>

\* FetchForm inside a try whose except clause goes on to the next attempt
FetchForm_CatchAndContinue ==
    /\ pc = "fetch"
    /\ fetches' = fetches + 1
    /\ \/ /\ transport_errors' = transport_errors + 1
          /\ pc' = "loop"
          /\ UNCHANGED <<attempt, page, captcha, result, returned, raised>>
       \/ /\ page' \in {"none", "base64", "url"}
          /\ pc' = "extract"
          /\ UNCHANGED <<attempt, captcha, result, returned, raised, transport_errors>>
    /\ UNCHANGED <<config, submits, manual_submits, last_result, response, parsed>>

\* lines 311-314: clear the cookies and fetch the form page
FetchForm ==
    /\ pc = "fetch"
    /\ fetches' = fetches + 1
    /\ \/ Raise("transport")
       \/ /\ page' \in {"none", "base64", "url"}
          /\ pc' = "extract"
          /\ UNCHANGED <<attempt, captcha, result, returned, raised, transport_errors>>
    /\ UNCHANGED <<config, submits, manual_submits, last_result, response, parsed>>

\* lines 317-327: extract_captcha_image and the choice of the solver
ExtractCaptcha ==
    /\ pc = "extract"
    /\ \/ /\ page = "none"
          /\ captcha' = [text |-> <<>>, origin |-> "absent"]
          /\ pc' = "submit"
          /\ UNCHANGED <<attempt, page, result, returned, raised, transport_errors>>
       \/ /\ page = "url"
          /\ Raise("transport")
       \/ /\ page \in {"base64", "url"}
          /\ pc' = IF use_ocr THEN "solve_ocr" ELSE "solve_manual"
          /\ UNCHANGED <<attempt, page, captcha, result, returned, raised, transport_errors>>
    /\ UNCHANGED <<config, fetches, submits, manual_submits, last_result, response, parsed>>

\* lines 165-197 called from line 324: solve_captcha_ocr
SolveOcr ==
    /\ pc = "solve_ocr"
    /\ \/ /\ ocr
          /\ \E raw \in RawGuesses :
                captcha' = [text |-> StripNonAlnum(raw), origin |-> "ocr"]
          /\ pc' = "submit"
          /\ UNCHANGED <<attempt, page, result, returned, raised, transport_errors>>
       \/ /\ ~ocr /\ easyocr_reader
          /\ \E raw \in RawGuesses :
                captcha' = [text |-> StripNonAlnum(Strip(raw)), origin |-> "ocr"]
          /\ pc' = "submit"
          /\ UNCHANGED <<attempt, page, result, returned, raised, transport_errors>>
       \/ /\ ~ocr      \* no reader, or readtext returned an empty list
          /\ Raise("RuntimeError")
    /\ UNCHANGED <<config, fetches, submits, manual_submits, last_result, response, parsed>>

\* lines 199-227 called from line 327: solve_captcha_manual
SolveManual ==
    /\ pc = "solve_manual"
    /\ \E typed \in RawGuesses :
          captcha' = [text |-> Strip(typed), origin |-> "manual"]
    /\ pc' = "manual_submit"
    /\ UNCHANGED <<config, attempt, page, result, returned, raised, transport_errors, fetches, submits,
                   manual_submits, last_result, response, parsed>>

\* ManualSubmit that falls through to the submit of line 333
ManualSubmit_IntoLoop ==
    /\ pc = "manual_submit"
    /\ manual_submits' = manual_submits + 1
    /\ pc' = "submit"
    /\ UNCHANGED <<config, attempt, page, captcha, result, returned, raised, transport_errors, fetches,
                   submits, last_result, response, parsed>>

\* line 329: return self._do_query(egn, last_name, captcha)
ManualSubmit ==
    /\ pc = "manual_submit"
    /\ submits' = submits + 1
    /\ manual_submits' = manual_submits + 1
    /\ \/ /\ Raise("transport")
          /\ UNCHANGED last_result
       \/ \E r \in ParseResults :
             /\ last_result' = <<r>>
             /\ Return(r)
    /\ UNCHANGED <<config, fetches, response, parsed>>

\* line 333: result = self._do_query(egn, last_name, captcha)
LoopSubmit ==
    /\ pc = "submit"
    /\ submits' = submits + 1
    /\ \/ /\ Raise("transport")
          /\ UNCHANGED last_result
       \/ \E r \in ParseResults :
             /\ result' = <<r>>
             /\ last_result' = <<r>>
             /\ pc' = "evaluate"
             /\ UNCHANGED <<attempt, page, captcha, returned, raised, transport_errors>>
    /\ UNCHANGED <<config, fetches, manual_submits, response, parsed>>

\* Evaluate that goes on to the next attempt after every failure
Evaluate_RetryAnyFailure ==
    /\ pc = "evaluate"
    /\ IF result[1].success
       THEN Return(result[1])
       ELSE /\ pc' = "loop"
            /\ UNCHANGED <<attempt, page, captcha, result, returned, raised, transport_errors>>
    /\ UNCHANGED <<config, fetches, submits, manual_submits, last_result, response, parsed>>

\* Evaluate that returns every result
Evaluate_NeverRetry ==
    /\ pc = "evaluate"
    /\ Return(result[1])
    /\ UNCHANGED <<config, fetches, submits, manual_submits, last_result, response, parsed>>

\* lines 335-344: return the result or go on to the next attempt
Evaluate ==
    /\ pc = "evaluate"
    /\ IF result[1].success
       THEN Return(result[1])
       ELSE IF result[1].is_captcha_error
       THEN /\ pc' = "loop"
            /\ UNCHANGED <<attempt, page, captcha, result, returned, raised, transport_errors>>
       ELSE Return(result[1])
    /\ UNCHANGED <<config, fetches, submits, manual_submits, last_result, response, parsed>>

\* lines 346-348: the range is used up; return result
ReturnExhausted ==
    /\ pc = "loop"
    /\ attempt + 1 > max_retries
    /\ IF result = <<>>
       THEN Raise("UnboundLocalError")
       ELSE Return(result[1])
    /\ UNCHANGED <<config, fetches, submits, manual_submits, last_result, response, parsed>>

Next ==
    \/ Call
    \/ PresolvedSubmit
    \/ LoopNext
    \/ FetchForm
    \/ ExtractCaptcha
    \/ SolveOcr
    \/ SolveManual
    \/ ManualSubmit
    \/ LoopSubmit
    \/ Evaluate
    \/ ReturnExhausted

Spec == Init /\ [][Next]_vars

\* ---------------------------------------------------------------- _do_query alone
\* a constructed client on which _do_query is called and the site answers
\* with the body response
ParseInit ==
    /\ Client
    /\ captcha_arg = <<>>
    /\ pc = "do_query"
    /\ Locals
    /\ Fresh
    /\ response \in Bodies
    /\ parsed = <<>>

\* lines 229-287: _do_query
DoQuery ==
    /\ pc = "do_query"
    /\ submits' = submits + 1
    /\ \/ /\ raised' = "transport"
          /\ transport_errors' = transport_errors + 1
          /\ pc' = "raised"
          /\ UNCHANGED <<parsed, last_result>>
       \/ /\ parsed' = <<ParseResult(response)>>
          /\ last_result' = parsed'
          /\ pc' = "done"
          /\ UNCHANGED <<raised, transport_errors>>
    /\ UNCHANGED <<config, attempt, page, captcha, result, returned, fetches, manual_submits,
                   response>>

ParseNext == DoQuery

ParseSpec == ParseInit /\ [][ParseNext]_vars

\* ---------------------------------------------------------------- properties
Terminal == pc \in {"done", "raised"}

\* C1, as stated: the number of form-page fetches never exceeds max_retries.
C1_FetchesWithinMaxRetries == fetches <= max_retries

\* C1, amended: the number of form-page fetches never exceeds max_retries when
\* max_retries is positive, and is zero when max_retries is zero or negative.
C1_FetchesWithinBudget == fetches <= (IF max_retries > 0 THEN max_retries ELSE 0)

\* the whole budget of at least two attempts was spent on fetches
C1_Witness == pc = "done" /\ max_retries >= 2 /\ fetches = max_retries

Permanent(r) == ~r.success /\ ~r.is_captcha_error

\* C2: once a submit of the retry loop has yielded a result with success false
\* and is_captcha_error false, the only step left is the return of that result:
\* no further form fetch and no further submit happens.
C2_PermanentErrorReturnsAtOnce ==
    [][(result # <<>> /\ Permanent(result[1]))
          => /\ pc' = "done"
             /\ returned' = result
             /\ returned' = last_result'
             /\ fetches' = fetches
             /\ submits' = submits]_vars

\* a permanent error was returned while attempts remained
C2_Witness ==
    /\ pc = "done"
    /\ use_ocr /\ ~Truthy(captcha_arg)
    /\ Permanent(returned[1])
    /\ fetches < max_retries

\* neither a container nor a match of the success or error pattern
Unparseable(body) ==
    /\ body.container = "none"
    /\ SuccessMatch(PageText(body)) = <<>>
    /\ ErrorMatch(PageText(body)) = <<>>

\* C3: for a response with no result container and no pattern match, _do_query
\* returns the text "Could not parse result" with success false.
C3_UnparseableIsFailure ==
    (parsed # <<>> /\ Unparseable(response))
        => (parsed[1].result = Sentinel /\ ~parsed[1].success)

\* C4: when the caller passes a captcha value, no form page is fetched and
\* exactly one submit has happened when query_documents ends.
C4_PresolvedSubmitsOnce ==
    captcha_arg # <<>>
        => /\ fetches = 0
           /\ submits <= 1
           /\ (Terminal => submits = 1)

\* C5: in automatic mode with a budget of N >= 1, a run that returns a CAPTCHA
\* error has made exactly N fetches and N submits and returns the result of the
\* N-th submit, with success false; while a CAPTCHA error is pending and attempts
\* remain the loop goes on to the next attempt, and it never fetches N+1 times.
C5_ExhaustedAfterNAttempts ==
    (use_ocr /\ ~Truthy(captcha_arg) /\ max_retries >= 1)
        => /\ fetches <= max_retries
           /\ (pc = "loop" /\ result # <<>>) => result[1].is_captcha_error
           /\ (pc = "loop" /\ attempt < max_retries)
                 => (ENABLED LoopNext /\ ~ENABLED ReturnExhausted)
           /\ (pc = "done" /\ returned[1].is_captcha_error)
                 => /\ fetches = max_retries
                    /\ submits = max_retries
                    /\ returned = last_result
                    /\ ~returned[1].success

\* every one of at least two attempts ended in a CAPTCHA error
C5_Witness ==
    /\ use_ocr /\ ~Truthy(captcha_arg) /\ max_retries >= 2
    /\ pc = "done"
    /\ returned[1].is_captcha_error
    /\ submits = max_retries

\* C6: a run that no transport error aborts ends with a returned result, the
\* result of the last submit, for every integer max_retries.
C6_EndsWithAResult ==
    /\ pc = "raised" => raised = "transport"
    /\ pc = "done" => (returned # <<>> /\ returned = last_result)

NoEngine == use_ocr_arg /\ ~DDDDOCR_AVAILABLE /\ ~EASYOCR_AVAILABLE

\* C8, as stated: with automatic solving requested and no OCR engine, the
\* solve step raises and no guess obtained some other way is submitted.
C8_NoEngineIsFatal ==
    NoEngine
        => /\ pc \notin {"solve_manual", "manual_submit"}
           /\ manual_submits = 0

\* C8, amended: with automatic solving requested and no OCR engine, the
\* constructor switches the client to manual mode; the solve step then asks the
\* operator, never calls the OCR solver and never raises the "no OCR library"
\* error, and the typed guess is submitted.
C8_NoEngineFallsBackToManual ==
    NoEngine
        => /\ ~use_ocr /\ ~ocr /\ ~easyocr_reader
           /\ pc # "solve_ocr"
           /\ raised # "RuntimeError"
           /\ captcha.origin # "ocr"
           /\ pc = "manual_submit" => captcha.origin = "manual"
           /\ manual_submits <= 1

\* with no engine, the operator's guess was submitted and the call returned
C8_Witness ==
    /\ NoEngine
    /\ pc = "done"
    /\ manual_submits = 1
    /\ submits = 1

\* C9: every result _do_query produces and query_documents returns satisfies
\* is_captcha_error implies not success.
C9_CaptchaErrorIsFailure ==
    /\ \A i \in 1..Len(result) : result[i].is_captcha_error => ~result[i].success
    /\ \A i \in 1..Len(returned) : returned[i].is_captcha_error => ~returned[i].success

\* a CAPTCHA error was returned to the caller
C9_Witness == pc = "done" /\ returned[1].is_captcha_error /\ ~returned[1].success

\* the text the parser classifies: the container's, or else the page's
MatchedText(body) == IF body.container = "none" THEN PageText(body) ELSE body.ctext

\* C10: a response whose text has an error token and no captcha token yields
\* is_captcha_error false and success false.
C10_ErrorWithoutCaptchaIsPermanent ==
    (/\ parsed # <<>>
     /\ Contains(MatchedText(response), "Greshka") \/ Contains(MatchedText(response), "Nevalidna")
     /\ ~ContainsLower(MatchedText(response), "kapcha"))
        => (~parsed[1].is_captcha_error /\ ~parsed[1].success)
\* the text has the success phrase: the opening words and, later, the closing word
HasSuccessPhrase(text) ==
    \E i, j \in 1..Len(text) : i < j /\ text[i] = "SledDate" /\ text[j] = "poluchen."

\* p is the phrase the success pattern matches in text: it opens at the first
\* opening words and runs to the first closing word after them
IsMatchedPhrase(text, p) ==
    \E i, j \in 1..Len(text) :
        /\ i < j
        /\ text[i] = "SledDate" /\ text[j] = "poluchen."
        /\ \A k \in 1..(i-1) : text[k] # "SledDate"
        /\ \A k \in (i+1)..(j-1) : text[k] # "poluchen."
        /\ p = SubSeq(text, i, j)

\* C11, as stated: for every response whose page text has the success phrase,
\* with or without a result container, _do_query returns success true and the
\* matched phrase as the result text.
C11_SuccessPhraseAlwaysWins ==
    (parsed # <<>> /\ HasSuccessPhrase(PageText(response)))
        => /\ parsed[1].success
           /\ IsMatchedPhrase(PageText(response), parsed[1].result)

\* C11, amended: for every response with no result container whose page text
\* has the success phrase, _do_query returns success true and the matched
\* phrase; when a container is found the result text is the container's text,
\* whatever the page holds, and success is true exactly when that text has no
\* error token.
C11_SuccessPhraseWithoutContainer ==
    parsed # <<>>
        => /\ (response.container = "none" /\ HasSuccessPhrase(PageText(response)))
                 => /\ parsed[1].success
                    /\ ~parsed[1].is_captcha_error
                    /\ IsMatchedPhrase(PageText(response), parsed[1].result)
           /\ response.container # "none"
                 => /\ parsed[1].result = response.ctext
                    /\ parsed[1].success
                          <=> ~(Contains(response.ctext, "Greshka")
                                   \/ Contains(response.ctext, "Nevalidna"))

\* a page without a container that holds the success phrase was parsed
C11_Witness ==
    /\ pc = "done"
    /\ parsed # <<>>
    /\ response.container = "none"
    /\ HasSuccessPhrase(PageText(response))
    /\ parsed[1].success
\* C12: a transport error of the form fetch, the image fetch or the submit is
\* not caught: query_documents ends at once with that exception, returns
\* nothing, and no fetch or submit follows, even when attempts remain.
C12_TransportErrorPropagates ==
    /\ [](transport_errors > 0
             => /\ transport_errors = 1
                /\ pc = "raised"
                /\ raised = "transport"
                /\ returned = <<>>)
    /\ [][transport_errors > 0 => (fetches' = fetches /\ submits' = submits)]_vars

\* the submit of the first attempt failed while attempts remained
C12_Witness ==
    /\ pc = "raised"
    /\ raised = "transport"
    /\ transport_errors = 1
    /\ fetches = 1 /\ submits = 1
    /\ fetches < max_retries
====
